---- MODULE Spec2Model ----
(***************************************************************************)
(* Model of src/bin/addition.rs: the AdditionCircuit (x + y = z over the   *)
(* scalar field Fr) and the Setup / Prove / Verify run that main drives.   *)
(*                                                                         *)
(* The circuit's synthesis is modelled statement by statement against an   *)
(* R1CS constraint system (variable counters, assignments, constraints).   *)
(* The Groth16 backend that main calls is modelled as an ideal proof       *)
(* system: a key carries the randomness of the Setup that made it and the  *)
(* shape of the synthesized circuit; a proof carries the key it was made   *)
(* under and the assignment it was made from; Verify accepts exactly when  *)
(* key and shape agree, the assignment satisfies the constraints and the   *)
(* public inputs are the proof's.  The backend's own behaviour (setup mode *)
(* skipping the value closures, the prover's debug-only satisfaction       *)
(* assertion, the verifier's input-length check) is kept.                  *)
(*                                                                         *)
(* main has no inputs; to cover the statements made "for all a, b" the     *)
(* circuit handed to Prove, the public-input list of the first Verify and  *)
(* the literal of the second Verify are drawn from bounded sets that       *)
(* contain main's own values (MainCircuit, MainPublic, MainWrongZ).        *)
(***************************************************************************)
EXTENDS Integers, Sequences, FiniteSets, TLC

\* ------------------------------------------------------------ bounds
\* Fr is modelled as the integers modulo FieldModulus.
FieldModulus == 5
\* Distinct outcomes of one draw from the randomness source.
MaxRand == 2
\* Longest public-input list handed to Verify.
MaxPub == 2

\* --------------------------------------------------------------- state
VARIABLES
  pc,              \* main's position
  build,           \* the build profile of the binary
  pk, vk,          \* let (pk, vk)
  proof,           \* let proof
  is_valid,        \* let is_valid
  is_valid_wrong,  \* let is_valid_wrong
  out,             \* the lines printed so far
  panic,           \* the message the run aborted with
  calls,           \* the backend calls made so far: operation, key, outcome
  lastProve,       \* the circuit handed to Prove and what Prove returned
  lastVerify       \* the arguments of the latest Verify and what it returned

vars == <<pc, build, pk, vk, proof, is_valid, is_valid_wrong, out, panic,
          calls, lastProve, lastVerify>>

\* ------------------------------------------------------------- field
Fr == 0 .. (FieldModulus - 1)

\* Fr::from(n)
FrFrom(n) == n % FieldModulus

\* a + b in Fr
FrAdd(a, b) == (a + b) % FieldModulus

FrMul(a, b) == (a * b) % FieldModulus

FrNeg(a) == (FieldModulus - a) % FieldModulus

\* Option<Fr>
None == -1
OptionFr == Fr \cup {None}

\* struct AdditionCircuit
AdditionCircuit == [x : OptionFr, y : OptionFr, z : OptionFr]

\* ------------------------------------------------- constraint system
\* Variables of the constraint system.
VarOne == <<"One", 0>>
VarWitness(i) == <<"W", i>>
VarInstance(i) == <<"I", i>>

\* ConstraintSystem::new(), with the synthesis mode the backend sets.
NewCS(mode) ==
  [ mode |-> mode,
    num_witness |-> 0,
    num_instance |-> 1,
    order |-> <<>>,
    witness_assignment |-> <<>>,
    instance_assignment |-> <<1 % FieldModulus>>,
    constraints |-> <<>>,
    err |-> "none" ]

\* Mutant: the value closure is run in setup mode too.
NewWitnessIgnoreMode(cs, v) ==
  LET cs1 == [cs EXCEPT !.num_witness = @ + 1, !.order = Append(@, "witness")]
  IN  IF v = None THEN [cs1 EXCEPT !.err = "AssignmentMissing"]
      ELSE [cs1 EXCEPT !.witness_assignment = Append(@, v)]

\* FpVar::new_witness(cs, || v.ok_or(SynthesisError::AssignmentMissing)):
\* the variable is counted, and outside setup mode the closure is run.
NewWitness(cs, v) ==
  LET cs1 == [cs EXCEPT !.num_witness = @ + 1, !.order = Append(@, "witness")]
  IN  IF cs.mode = "Setup" THEN cs1
      ELSE IF v = None THEN [cs1 EXCEPT !.err = "AssignmentMissing"]
      ELSE [cs1 EXCEPT !.witness_assignment = Append(@, v)]

\* Mutant: a missing public value defaults to zero (unwrap_or_default).
NewInputDefault(cs, v) ==
  LET cs1 == [cs EXCEPT !.num_instance = @ + 1, !.order = Append(@, "input")]
  IN  IF cs.mode = "Setup" THEN cs1
      ELSE [cs1 EXCEPT !.instance_assignment = Append(@, IF v = None THEN 0 ELSE v)]

\* FpVar::new_input(cs, || v.ok_or(SynthesisError::AssignmentMissing))
NewInput(cs, v) ==
  LET cs1 == [cs EXCEPT !.num_instance = @ + 1, !.order = Append(@, "input")]
  IN  IF cs.mode = "Setup" THEN cs1
      ELSE IF v = None THEN [cs1 EXCEPT !.err = "AssignmentMissing"]
      ELSE [cs1 EXCEPT !.instance_assignment = Append(@, v)]

\* A linear combination is a sequence of <<coefficient, variable>> terms.
LcVar(v) == << <<1, v>> >>

LcAdd(a, b) == a \o b

LcSub(a, b) == a \o [i \in 1 .. Len(b) |-> <<FrNeg(b[i][1]), b[i][2]>>]

\* sum.enforce_equal(&z): the constraint (sum - z) * 1 = 0.
EnforceEqual(cs, a, b) ==
  [cs EXCEPT !.constraints =
     Append(@, [a |-> LcSub(a, b), b |-> LcVar(VarOne), c |-> <<>>])]

\* Mutant: the sum is built from x twice.
GenerateConstraintsWrongSum(self, cs0) ==
  LET cs1 == NewWitness(cs0, self.x)
      x == VarWitness(cs1.num_witness - 1)
  IN  IF cs1.err /= "none" THEN cs1 ELSE
  LET cs2 == NewWitness(cs1, self.y)
  IN  IF cs2.err /= "none" THEN cs2 ELSE
  LET cs3 == NewInput(cs2, self.z)
      z == VarInstance(cs3.num_instance - 1)
  IN  IF cs3.err /= "none" THEN cs3 ELSE
  LET sum == LcAdd(LcVar(x), LcVar(x))
  IN  EnforceEqual(cs3, sum, LcVar(z))

\* Mutant: the equality is never enforced.
GenerateConstraintsNoEnforce(self, cs0) ==
  LET cs1 == NewWitness(cs0, self.x)
  IN  IF cs1.err /= "none" THEN cs1 ELSE
  LET cs2 == NewWitness(cs1, self.y)
  IN  IF cs2.err /= "none" THEN cs2 ELSE
  NewInput(cs2, self.z)

\* Mutant: a variable is allocated only when its value is known.
GenerateConstraintsSkipUnknown(self, cs0) ==
  LET cs1 == IF self.x = None THEN cs0 ELSE NewWitness(cs0, self.x)
      cs2 == IF self.y = None THEN cs1 ELSE NewWitness(cs1, self.y)
      cs3 == IF self.z = None THEN cs2 ELSE NewInput(cs2, self.z)
  IN  EnforceEqual(cs3,
                   LcAdd(LcVar(VarWitness(0)), LcVar(VarWitness(1))),
                   LcVar(VarInstance(1)))

\* AdditionCircuit::generate_constraints
GenerateConstraints(self, cs0) ==
  LET cs1 == NewWitness(cs0, self.x)
      x == VarWitness(cs1.num_witness - 1)
  IN  IF cs1.err /= "none" THEN cs1 ELSE
  LET cs2 == NewWitness(cs1, self.y)
      y == VarWitness(cs2.num_witness - 1)
  IN  IF cs2.err /= "none" THEN cs2 ELSE
  LET cs3 == NewInput(cs2, self.z)
      z == VarInstance(cs3.num_instance - 1)
  IN  IF cs3.err /= "none" THEN cs3 ELSE
  LET sum == LcAdd(LcVar(x), LcVar(y))
  IN  EnforceEqual(cs3, sum, LcVar(z))

\* What the keys fix of a synthesized circuit.
Shape(cs) ==
  [ num_witness |-> cs.num_witness,
    num_instance |-> cs.num_instance,
    order |-> cs.order,
    constraints |-> cs.constraints ]

\* Value of a variable under an assignment.
VarValue(v, instance, witness) ==
  IF v[1] = "One" THEN instance[1]
  ELSE IF v[1] = "I" THEN instance[v[2] + 1]
  ELSE witness[v[2] + 1]

\* Whether every variable of a linear combination has a value.
LcDefined(lc, instance, witness) ==
  \A i \in 1 .. Len(lc) :
     \/ lc[i][2][1] = "One"
     \/ lc[i][2][1] = "I" /\ lc[i][2][2] + 1 <= Len(instance)
     \/ lc[i][2][1] = "W" /\ lc[i][2][2] + 1 <= Len(witness)

RECURSIVE LcEval(_, _, _)
LcEval(lc, instance, witness) ==
  IF lc = <<>> THEN 0
  ELSE FrAdd(FrMul(lc[1][1], VarValue(lc[1][2], instance, witness)),
             LcEval(Tail(lc), instance, witness))

\* ConstraintSystem::is_satisfied: a * b = c for every constraint.
IsSatisfied(constraints, instance, witness) ==
  \A i \in 1 .. Len(constraints) :
     /\ LcDefined(constraints[i].a, instance, witness)
     /\ LcDefined(constraints[i].b, instance, witness)
     /\ LcDefined(constraints[i].c, instance, witness)
     /\ FrMul(LcEval(constraints[i].a, instance, witness),
              LcEval(constraints[i].b, instance, witness))
        = LcEval(constraints[i].c, instance, witness)

\* ----------------------------------------------------------- backend
EmptyShape == Shape(NewCS("Setup"))
NoKey == [key |-> 0, shape |-> EmptyShape]
NoProof ==
  [key |-> 0, r |-> 0, shape |-> EmptyShape, instance |-> <<>>, witness |-> <<>>]

\* Groth16::circuit_specific_setup(circuit, rng); k is the rng's draw.
CircuitSpecificSetup(circuit, k) ==
  LET cs == GenerateConstraints(circuit, NewCS("Setup"))
  IN  IF cs.err /= "none"
      THEN [tag |-> "Err", err |-> cs.err, pk |-> NoKey, vk |-> NoKey]
      ELSE [tag |-> "Ok", err |-> "none",
            pk |-> [key |-> k, shape |-> Shape(cs)],
            vk |-> [key |-> k, shape |-> Shape(cs)]]

\* Groth16::prove(&pk, circuit, rng); r is the rng's draw.  The prover's
\* satisfaction check is a debug assertion: it panics in a debug build and
\* is absent from a release build.
Prove(provingKey, circuit, r, bld) ==
  LET cs == GenerateConstraints(circuit, NewCS("Prove"))
  IN  IF cs.err /= "none"
      THEN [tag |-> "Err", err |-> cs.err, proof |-> NoProof]
      ELSE IF bld = "debug"
              /\ ~IsSatisfied(cs.constraints, cs.instance_assignment,
                              cs.witness_assignment)
      THEN [tag |-> "Panic", err |-> "debug_assert", proof |-> NoProof]
      ELSE [tag |-> "Ok", err |-> "none",
            proof |-> [key |-> provingKey.key, r |-> r, shape |-> Shape(cs),
                       instance |-> cs.instance_assignment,
                       witness |-> cs.witness_assignment]]

\* The statement a proof binds holds of the public inputs given.
Accepts(verifyingKey, publicInputs, prf) ==
  /\ prf.key = verifyingKey.key
  /\ prf.shape = verifyingKey.shape
  /\ prf.instance = <<1 % FieldModulus>> \o publicInputs
  /\ IsSatisfied(verifyingKey.shape.constraints, prf.instance, prf.witness)

\* Mutant: a proof that does not check is reported as an error.
VerifyErrOnInvalid(verifyingKey, publicInputs, prf) ==
  IF Len(publicInputs) + 1 /= verifyingKey.shape.num_instance
     \/ ~Accepts(verifyingKey, publicInputs, prf)
  THEN [tag |-> "Err", err |-> "MalformedVerifyingKey", value |-> FALSE]
  ELSE [tag |-> "Ok", err |-> "none", value |-> TRUE]

\* Mutant: a proof is accepted once only.
VerifyOnce(verifyingKey, publicInputs, prf) ==
  IF Len(publicInputs) + 1 /= verifyingKey.shape.num_instance
  THEN [tag |-> "Err", err |-> "MalformedVerifyingKey", value |-> FALSE]
  ELSE [tag |-> "Ok", err |-> "none",
        value |-> Accepts(verifyingKey, publicInputs, prf) /\ lastVerify.n = 0]

\* Mutant: the public inputs are not bound to the proof.
VerifyIgnoreInputs(verifyingKey, publicInputs, prf) ==
  IF Len(publicInputs) + 1 /= verifyingKey.shape.num_instance
  THEN [tag |-> "Err", err |-> "MalformedVerifyingKey", value |-> FALSE]
  ELSE [tag |-> "Ok", err |-> "none",
        value |-> /\ prf.key = verifyingKey.key
                  /\ prf.shape = verifyingKey.shape
                  /\ IsSatisfied(verifyingKey.shape.constraints,
                                 prf.instance, prf.witness)]

\* Groth16::verify(&vk, &publicInputs, &proof): an input list of the wrong
\* length is an error; otherwise the answer is a boolean.
Verify(verifyingKey, publicInputs, prf) ==
  IF Len(publicInputs) + 1 /= verifyingKey.shape.num_instance
  THEN [tag |-> "Err", err |-> "MalformedVerifyingKey", value |-> FALSE]
  ELSE [tag |-> "Ok", err |-> "none",
        value |-> Accepts(verifyingKey, publicInputs, prf)]

\* ------------------------------------------------------- main's values
\* let circuit = AdditionCircuit { x: None, y: None, z: None };
SetupCircuit == [x |-> None, y |-> None, z |-> None]

\* x = Fr::from(17), y = Fr::from(2), z = x + y
MainCircuit ==
  [x |-> FrFrom(17), y |-> FrFrom(2), z |-> FrAdd(FrFrom(17), FrFrom(2))]

\* &[z]
MainPublic == <<MainCircuit.z>>

\* wrong_z = Fr::from(20)
MainWrongZ == FrFrom(20)

\* The public-input lists the first Verify is tried with.
PublicInputs == UNION {[1 .. n -> Fr] : n \in 0 .. MaxPub}

Builds == {"debug", "release"}

Init ==
  /\ pc = "setup"
  /\ build \in Builds
  /\ pk = NoKey
  /\ vk = NoKey
  /\ proof = NoProof
  /\ is_valid = FALSE
  /\ is_valid_wrong = FALSE
  /\ out = <<>>
  /\ panic = "none"
  /\ calls = <<>>
  /\ lastProve = [circuit |-> SetupCircuit, tag |-> "none", err |-> "none"]
  /\ lastVerify = [n |-> 0, vk |-> NoKey, inputs |-> <<>>, proof |-> NoProof,
                   tag |-> "none", value |-> FALSE]

\* circuit_specific_setup(circuit, &mut rng).expect("Failed to setup")
Setup ==
  /\ pc = "setup"
  /\ \E k \in 1 .. MaxRand :
       LET res == CircuitSpecificSetup(SetupCircuit, k)
       IN  /\ calls' = Append(calls, [op |-> "Setup", key |-> k, tag |-> res.tag])
           /\ IF res.tag = "Ok"
              THEN /\ pk' = res.pk
                   /\ vk' = res.vk
                   /\ out' = Append(out, "setup_complete")
                   /\ pc' = "prove"
                   /\ panic' = panic
              ELSE /\ pc' = "panic"
                   /\ panic' = "Failed to setup"
                   /\ UNCHANGED <<pk, vk, out>>
  /\ UNCHANGED <<build, proof, is_valid, is_valid_wrong, lastProve, lastVerify>>

\* prove(&pk, circuit, &mut rng).expect("Failed to generate proof")
ProveStep ==
  /\ pc = "prove"
  /\ \E circuit \in AdditionCircuit, r \in 1 .. MaxRand :
       LET res == Prove(pk, circuit, r, build)
       IN  /\ calls' = Append(calls, [op |-> "Prove", key |-> pk.key, tag |-> res.tag])
           /\ lastProve' = [circuit |-> circuit, tag |-> res.tag, err |-> res.err]
           /\ IF res.tag = "Ok"
              THEN /\ proof' = res.proof
                   /\ out' = Append(out, "proof_generated")
                   /\ pc' = "verify"
                   /\ panic' = panic
              ELSE /\ pc' = "panic"
                   /\ panic' = IF res.tag = "Err" THEN "Failed to generate proof"
                                                  ELSE res.err
                   /\ UNCHANGED <<proof, out>>
  /\ UNCHANGED <<build, pk, vk, is_valid, is_valid_wrong, lastVerify>>

\* Mutant: a failed Verify is not fatal (unwrap_or(false)).
VerifyCorrectNoAbort ==
  /\ pc = "verify"
  /\ \E inputs \in PublicInputs :
       LET res == Verify(vk, inputs, proof)
       IN  /\ calls' = Append(calls, [op |-> "Verify", key |-> vk.key, tag |-> res.tag])
           /\ lastVerify' = [n |-> 1, vk |-> vk, inputs |-> inputs, proof |-> proof,
                             tag |-> res.tag, value |-> res.value]
           /\ out' = Append(out, "verifier_header")
           /\ is_valid' = res.value
           /\ pc' = "report"
           /\ panic' = panic
  /\ UNCHANGED <<build, pk, vk, proof, is_valid_wrong, lastProve>>

\* println!("=== VERIFIER ==="); verify(&vk, &[z], &proof).expect("Failed to verify")
VerifyCorrect ==
  /\ pc = "verify"
  /\ \E inputs \in PublicInputs :
       LET res == Verify(vk, inputs, proof)
       IN  /\ calls' = Append(calls, [op |-> "Verify", key |-> vk.key, tag |-> res.tag])
           /\ lastVerify' = [n |-> 1, vk |-> vk, inputs |-> inputs, proof |-> proof,
                             tag |-> res.tag, value |-> res.value]
           /\ out' = Append(out, "verifier_header")
           /\ IF res.tag = "Ok"
              THEN /\ is_valid' = res.value
                   /\ pc' = "report"
                   /\ panic' = panic
              ELSE /\ pc' = "panic"
                   /\ panic' = "Failed to verify"
                   /\ is_valid' = is_valid
  /\ UNCHANGED <<build, pk, vk, proof, is_valid_wrong, lastProve>>

\* Mutant: the else branch is missing.
ReportValidSilent ==
  /\ pc = "report"
  /\ out' = IF is_valid THEN Append(out, "proof_valid") ELSE out
  /\ pc' = "verify_wrong"
  /\ UNCHANGED <<build, pk, vk, proof, is_valid, is_valid_wrong, panic, calls,
                 lastProve, lastVerify>>

\* if is_valid { println!(valid ...) } else { println!(invalid ...) }
ReportValid ==
  /\ pc = "report"
  /\ out' = Append(out, IF is_valid THEN "proof_valid" ELSE "proof_invalid")
  /\ pc' = "verify_wrong"
  /\ UNCHANGED <<build, pk, vk, proof, is_valid, is_valid_wrong, panic, calls,
                 lastProve, lastVerify>>

\* println!("=== TESTING WITH WRONG PUBLIC INPUT ===");
\* verify(&vk, &[wrong_z], &proof).expect("Failed to verify")
VerifyWrong ==
  /\ pc = "verify_wrong"
  /\ \E wrong_z \in Fr :
       LET res == Verify(vk, <<wrong_z>>, proof)
       IN  /\ calls' = Append(calls, [op |-> "Verify", key |-> vk.key, tag |-> res.tag])
           /\ lastVerify' = [n |-> 2, vk |-> vk, inputs |-> <<wrong_z>>,
                             proof |-> proof, tag |-> res.tag, value |-> res.value]
           /\ out' = Append(out, "wrong_header")
           /\ IF res.tag = "Ok"
              THEN /\ is_valid_wrong' = res.value
                   /\ pc' = "report_wrong"
                   /\ panic' = panic
              ELSE /\ pc' = "panic"
                   /\ panic' = "Failed to verify"
                   /\ is_valid_wrong' = is_valid_wrong
  /\ UNCHANGED <<build, pk, vk, proof, is_valid, lastProve>>

\* if !is_valid_wrong { println!("Correctly rejected ...") }
ReportWrong ==
  /\ pc = "report_wrong"
  /\ out' = IF ~is_valid_wrong THEN Append(out, "correctly_rejected") ELSE out
  /\ pc' = "done"
  /\ UNCHANGED <<build, pk, vk, proof, is_valid, is_valid_wrong, panic, calls,
                 lastProve, lastVerify>>

Next ==
  \/ Setup
  \/ ProveStep
  \/ VerifyCorrect
  \/ ReportValid
  \/ VerifyWrong
  \/ ReportWrong

Spec == Init /\ [][Next]_vars

\* ------------------------------------------------------------ claims
\* Every value of a circuit is assigned.
Assigned(c) == c.x /= None /\ c.y /= None /\ c.z /= None

\* The circuit's values satisfy x + y = z in the field.
Satisfying(c) == Assigned(c) /\ c.z = FrAdd(c.x, c.y)

\* Prove has been called.
Proved == lastProve.tag /= "none"

\* The messages a run prints, in the order main prints them.
OutOrder ==
  << {"setup_complete"}, {"proof_generated"}, {"verifier_header"},
     {"proof_valid", "proof_invalid"}, {"wrong_header"}, {"correctly_rejected"} >>

\* The backend calls of a run, in main's order.
CallOrder == <<"Setup", "Prove", "Verify", "Verify">>

\* C1 (completeness): whenever Prove was given a circuit with c = a + b in
\* the field, Prove returned a proof, and every Verify of that proof against
\* the list [c] returned Ok(true); after the first Verify is_valid is true.
C1_Completeness ==
  LET c == lastProve.circuit
  IN  (Proved /\ Satisfying(c)) =>
        /\ lastProve.tag = "Ok"
        /\ (lastVerify.n >= 1 /\ lastVerify.inputs = <<c.z>>) =>
             /\ lastVerify.tag = "Ok"
             /\ lastVerify.value = TRUE
             /\ lastVerify.n = 1 => (pc \in {"report", "verify_wrong"} /\ is_valid)

\* main's own case: a = 17, b = 2, c = 19, verified against [c].
C1_Witness ==
  /\ lastProve.circuit = MainCircuit
  /\ lastVerify.n = 1
  /\ lastVerify.inputs = MainPublic
  /\ pc = "report"
  /\ is_valid

\* C2 (soundness): a proof produced for (a, b, c = a + b) and verified with
\* the key of its Setup against a one-element list [c'] with c' /= c yields
\* Ok(false); after the second Verify is_valid_wrong is false.
C2_Soundness ==
  LET c == lastProve.circuit
  IN  ( /\ Proved /\ Satisfying(c)
        /\ lastVerify.n >= 1
        /\ Len(lastVerify.inputs) = 1
        /\ lastVerify.inputs[1] /= c.z ) =>
        /\ lastVerify.tag = "Ok"
        /\ lastVerify.value = FALSE
        /\ lastVerify.n = 1 => ~is_valid
        /\ lastVerify.n = 2 => ~is_valid_wrong

\* main's own case: the proof for (17, 2, 19) verified against [20].
C2_Witness ==
  /\ lastProve.circuit = MainCircuit
  /\ is_valid
  /\ lastVerify.n = 2
  /\ lastVerify.inputs = <<MainWrongZ>>
  /\ lastVerify.proof = proof
  /\ pc = "report_wrong"
  /\ ~is_valid_wrong

\* C3 (shape stability): the synthesis Prove ran on an assigned circuit has
\* the shape of the synthesis Setup ran on the all-unknown circuit: two
\* witness variables and one public input, allocated in the order x, y, z,
\* and one constraint.
C3_ShapeStability ==
  lastProve.tag = "Ok" =>
    /\ proof.shape = pk.shape
    /\ proof.shape = vk.shape
    /\ pk.shape.order = <<"witness", "witness", "input">>
    /\ pk.shape.num_witness = 2
    /\ pk.shape.num_instance = 2
    /\ Len(pk.shape.constraints) = 1
    /\ Len(proof.witness) = 2
    /\ Len(proof.instance) = 2

C3_Witness ==
  /\ lastProve.tag = "Ok"
  /\ lastProve.circuit = MainCircuit
  /\ calls[1] = [op |-> "Setup", key |-> pk.key, tag |-> "Ok"]
  /\ proof /= NoProof

\* C4 (missing assignment): when any of x, y, z is unknown in the circuit
\* given to Prove, Prove returns the error AssignmentMissing, main aborts
\* with "Failed to generate proof", and no proof exists.
C4_MissingAssignment ==
  (Proved /\ ~Assigned(lastProve.circuit)) =>
    /\ lastProve.tag = "Err"
    /\ lastProve.err = "AssignmentMissing"
    /\ proof = NoProof
    /\ pc = "panic"
    /\ panic = "Failed to generate proof"
    /\ Len(calls) = 2

\* Only z is missing: the last of the three allocations fails.
C4_Witness ==
  /\ lastProve.circuit = [x |-> MainCircuit.x, y |-> MainCircuit.y, z |-> None]
  /\ lastProve.err = "AssignmentMissing"
  /\ pc = "panic"

\* C5 as stated: Prove on an assigned circuit with x + y /= z fails and
\* produces no proof.
C5_Original ==
  (Proved /\ Assigned(lastProve.circuit) /\ ~Satisfying(lastProve.circuit)) =>
    (lastProve.tag /= "Ok" /\ proof = NoProof)

\* C5 (amended): Prove returns an error exactly when a value is missing.
\* Synthesis does not fail on an assigned circuit with x + y /= z: Prove then
\* stops on the backend's debug assertion (debug build, no proof) or returns
\* a proof (release build), and no Verify accepts that proof.
C5_Amended ==
  LET c == lastProve.circuit
  IN  Proved =>
        /\ lastProve.tag = "Err" <=> ~Assigned(c)
        /\ (Assigned(c) /\ ~Satisfying(c)) =>
             \/ /\ build = "debug"
                /\ lastProve.tag = "Panic"
                /\ proof = NoProof
                /\ pc = "panic"
                /\ panic = "debug_assert"
             \/ /\ build = "release"
                /\ lastProve.tag = "Ok"
                /\ proof /= NoProof
                /\ ~is_valid
                /\ ~is_valid_wrong
                /\ lastVerify.value = FALSE

\* A release build proved 17 + 2 = 20 and Verify against [20] said false.
C5_Witness ==
  /\ build = "release"
  /\ lastProve.circuit = [MainCircuit EXCEPT !.z = MainWrongZ]
  /\ lastProve.tag = "Ok"
  /\ lastVerify.n = 1
  /\ lastVerify.inputs = <<MainWrongZ>>
  /\ lastVerify.tag = "Ok"
  /\ lastVerify.value = FALSE

\* C6 (false is a value): a Verify given a list of the right length for which
\* the proof does not hold returns Ok(false) and the run goes on; the run
\* aborts after a Verify only when that Verify returned an error.
C6_FalseIsNormal ==
  lastVerify.n >= 1 =>
    /\ ( /\ Len(lastVerify.inputs) + 1 = lastVerify.vk.shape.num_instance
         /\ ~Accepts(lastVerify.vk, lastVerify.inputs, lastVerify.proof) ) =>
           /\ lastVerify.tag = "Ok"
           /\ lastVerify.value = FALSE
           /\ pc /= "panic"
           /\ panic = "none"
    /\ pc = "panic" <=> lastVerify.tag = "Err"
    /\ pc = "panic" => panic = "Failed to verify"

\* The first Verify said false, main printed so and went on.
C6_Witness ==
  /\ lastVerify.n = 1
  /\ lastVerify.tag = "Ok"
  /\ lastVerify.value = FALSE
  /\ pc = "verify_wrong"
  /\ out[Len(out)] = "proof_invalid"

C8_PhaseOrder ==
  LET n == Len(calls)
  IN  /\ n <= Len(CallOrder)
      /\ \A i \in 1 .. n : calls[i].op = CallOrder[i]
      /\ \A i \in 1 .. n - 1 : calls[i].tag = "Ok"
      /\ pc = "panic" <=> (n >= 1 /\ calls[n].tag /= "Ok")
      /\ pc = "setup" <=> n = 0
      /\ \A i \in 1 .. n : calls[i].key = calls[1].key
      /\ (n >= 1 /\ calls[1].tag = "Ok") =>
           /\ pk.key = calls[1].key
           /\ vk.key = calls[1].key
           /\ proof /= NoProof => proof.key = calls[1].key
           /\ lastVerify.n >= 1 => lastVerify.vk = vk
      /\ Len(out) <= Len(OutOrder)
      /\ \A i \in 1 .. Len(out) : out[i] \in OutOrder[i]
      /\ pc = "panic" => Len(out) = CASE n = 1 -> 0
                                      [] n = 2 -> 1
                                      [] n = 3 -> 3
                                      [] OTHER -> 5
      /\ pc = "prove" => (n = 1 /\ Len(out) = 1)
      /\ pc = "verify" => (n = 2 /\ Len(out) = 2)
      /\ pc = "report" => (n = 3 /\ Len(out) = 3)
      /\ pc = "verify_wrong" => (n = 3 /\ Len(out) = 4)
      /\ pc \in {"report_wrong", "done"} => n = 4

\* The first Verify failed: the run stopped after the verifier's header.
C8_Witness ==
  /\ pc = "panic"
  /\ Len(calls) = 3
  /\ calls[3].tag = "Err"
  /\ out = <<"setup_complete", "proof_generated", "verifier_header">>

\* C9 as stated: a finished run printed the outcome of each of the two
\* Verify calls, whichever boolean it was.
C9_Original ==
  pc = "done" =>
    /\ Len(out) = 6
    /\ out[4] = (IF is_valid THEN "proof_valid" ELSE "proof_invalid")
    /\ out[6] \in OutOrder[6]

\* C9 (amended): the run prints the outcome of the first Verify whichever
\* boolean it is; for the second it prints the rejection when Verify said
\* false and nothing past the header when Verify said true.
C9_Amended ==
  /\ pc \in {"verify_wrong", "report_wrong", "done"} =>
       /\ Len(out) >= 4
       /\ out[4] = (IF is_valid THEN "proof_valid" ELSE "proof_invalid")
  /\ pc = "done" =>
       /\ Len(out) >= 5
       /\ out[5] = "wrong_header"
       /\ ~is_valid_wrong => (Len(out) = 6 /\ out[6] = "correctly_rejected")
       /\ is_valid_wrong => Len(out) = 5

\* A finished run whose first Verify said false and whose second said true.
C9_Witness ==
  /\ pc = "done"
  /\ ~is_valid
  /\ is_valid_wrong
  /\ out[4] = "proof_invalid"

\* C10 (Setup needs no values): Setup on the all-unknown circuit returns a
\* key pair without AssignmentMissing; a run aborts on a missing value only
\* in Prove.
C10_SetupNoValues ==
  /\ ~Assigned(SetupCircuit)
  /\ pc /= "setup" =>
       /\ calls[1] = [op |-> "Setup", key |-> pk.key, tag |-> "Ok"]
       /\ pk /= NoKey
       /\ vk /= NoKey
       /\ pk.key \in 1 .. MaxRand
       /\ pk = vk
       /\ Len(out) >= 1
       /\ out[1] = "setup_complete"
       /\ panic /= "Failed to setup"
  /\ lastProve.err = "AssignmentMissing" =>
       (calls[Len(calls)].op = "Prove" /\ panic = "Failed to generate proof")

\* Setup has returned its keys and Prove is next.
C10_Witness ==
  /\ pc = "prove"
  /\ pk.key /= 0
  /\ vk.key = pk.key
  /\ out = <<"setup_complete">>

====
